---- MODULE Spec2Model ----
(***************************************************************************)
(* Voice-Scheduling-Agent: the text-chat booking dialogue (chat.py), its   *)
(* session store (app.py), the OAuth credential gate (oauth_google.py),    *)
(* the calendar call (calendar_event.py), the voice dialogue (voice.py)    *)
(* and the standalone engine, predicates and yes/no parser of              *)
(* agent_state.py.                                                         *)
(*                                                                         *)
(* Text is a sequence of one-character strings, so that strip(), lower()   *)
(* and slicing are computed.  A timestamp text is a sequence of lexical    *)
(* tokens: " " (whitespace), "DATE", "T", "TIME", "OFF" (a +hh:mm offset), *)
(* "Z" and "x" (anything else).                                            *)
(***************************************************************************)
EXTENDS Integers, Sequences, FiniteSets, TLC

VARIABLES
  sessions,     \* SESSIONS: session id -> entry
  req,          \* the chat requests in flight and their locals
  attempts,     \* CreateEvent calls started so far; call n carries request id n
  created,      \* per session, CreateEvent calls that returned an event
  last_failed,  \* per session, the request id of the failed call that a further
                \* confirmation would retry (0: none, or a reject came since)
  vreq,         \* the voice requests in flight and their locals
  agent         \* the standalone engine: the state and the result of the last call
                \* of handle_user_message

vars == <<sessions, req, attempts, created, last_failed, vreq, agent>>

----------------------------------------------------------------------------
(* Bounds *)

\* CreateEvent calls made over a run (every call mints a request id)
MaxAttempts == 3
\* reply fragments forwarded per turn
MaxChunks == 2
\* messages a session appends to its voice history: enough to overflow the window
MaxSpoken == 22
\* a broken reply stream is explored while the session has appended this many
\* messages at most
MaxBroken == 4
\* messages per voice history where voice turns run next to chat turns
MaxBothSpoken == 3
\* user messages per voice history in the two-session runs
MaxIsoSpoken == 1

Sids == {"s1", "s2"}
Reqs == {"r1", "r2"}
VReqs == {"v1"}

----------------------------------------------------------------------------
(* Python values *)

\* None of an Optional[str]; it differs from every text, the empty one included
None == <<"<None>">>

\* None of the "confirm" enumeration
NoConfirm == "null"

Whitespace == {" "}
Digits == {"0", "1", "2", "3", "4", "5", "6", "7", "8", "9"}

\* truthiness of an Optional[str]
Truthy(x) == x # None /\ x # <<>>

RECURSIVE LStrip(_)
LStrip(s) == IF s # <<>> /\ Head(s) \in Whitespace THEN LStrip(Tail(s)) ELSE s

RECURSIVE RStrip(_)
RStrip(s) == IF s # <<>> /\ s[Len(s)] \in Whitespace
               THEN RStrip(SubSeq(s, 1, Len(s) - 1)) ELSE s

\* str.strip()
Strip(s) == RStrip(LStrip(s))

LowerChar(c) ==
  CASE c = "A" -> "a" [] c = "B" -> "b" [] c = "C" -> "c" [] c = "D" -> "d" [] c = "E" -> "e"
    [] c = "F" -> "f" [] c = "G" -> "g" [] c = "H" -> "h" [] c = "I" -> "i" [] c = "J" -> "j"
    [] c = "K" -> "k" [] c = "L" -> "l" [] c = "M" -> "m" [] c = "N" -> "n" [] c = "O" -> "o"
    [] c = "P" -> "p" [] c = "Q" -> "q" [] c = "R" -> "r" [] c = "S" -> "s" [] c = "T" -> "t"
    [] c = "U" -> "u" [] c = "V" -> "v" [] c = "W" -> "w" [] c = "X" -> "x" [] c = "Y" -> "y"
    [] c = "Z" -> "z"
    [] OTHER -> c

RECURSIVE Lower(_)
\* str.lower()
Lower(s) == IF s = <<>> THEN <<>> ELSE <<LowerChar(Head(s))>> \o Lower(Tail(s))

\* s[:n]
Take(s, n) == IF Len(s) <= n THEN s ELSE SubSeq(s, 1, n)

RECURSIVE Keep(_, _)
\* the characters of s that are in set cs, in order
Keep(s, cs) == IF s = <<>> THEN <<>>
               ELSE (IF Head(s) \in cs THEN <<Head(s)>> ELSE <<>>) \o Keep(Tail(s), cs)

----------------------------------------------------------------------------
(* agent_state.py: the field predicates and the yes/no parser *)

\* EMAIL_RE  ^[^@\s]+@[^@\s]+\.[^@\s]+$
EMAIL_RE(s) ==
  /\ \A i \in 1..Len(s) : s[i] \notin Whitespace
  /\ Cardinality({i \in 1..Len(s) : s[i] = "@"}) = 1
  /\ \E a \in 1..Len(s) :
       /\ s[a] = "@"
       /\ a > 1
       /\ \E d \in (a + 2)..(Len(s) - 1) : s[d] = "."

\* PHONE_RE  ^\+?[0-9][0-9\s\-()]{6,}$
PHONE_RE(s) ==
  LET body == IF s # <<>> /\ Head(s) = "+" THEN Tail(s) ELSE s
  IN /\ Len(body) >= 7
     /\ body[1] \in Digits
     /\ \A i \in 2..Len(body) : body[i] \in Digits \cup Whitespace \cup {"-", "(", ")"}

normalize_phone(s) == Keep(Strip(IF s = None THEN <<>> ELSE s), Digits \cup {"+"})

is_valid_email(s) == EMAIL_RE(Lower(Strip(IF s = None THEN <<>> ELSE s)))

is_valid_phone(s) == PHONE_RE(normalize_phone(s))

AgentYes == { <<"y","e","s">>, <<"y">>, <<"y","e","a","h">>, <<"y","e","p">>,
              <<"c","o","n","f","i","r","m">>, <<"c","o","r","r","e","c","t">>,
              <<"o","k">>, <<"o","k","a","y">> }

AgentNo == { <<"n","o">>, <<"n">>, <<"n","o","p","e">>,
             <<"c","a","n","c","e","l">>, <<"r","e","s","t","a","r","t">> }

\* as parse_yes_no, but every answer that is not a no counts as a yes
parse_yes_no_lenient(text) ==
  LET t == Lower(Strip(IF text = None THEN <<>> ELSE text))
  IN IF t \in AgentNo THEN "no" ELSE "yes"

\* True / False / None as "yes" / "no" / "null"
parse_yes_no(text) ==
  LET t == Lower(Strip(IF text = None THEN <<>> ELSE text))
  IN IF t \in AgentYes THEN "yes" ELSE IF t \in AgentNo THEN "no" ELSE NoConfirm

----------------------------------------------------------------------------
(* chat.py: constants, state, helpers *)

DEFAULT_TITLE == <<"S","c","h","e","d","u","l","e","d"," ","M","e","e","t","i","n","g">>

PhoneMaxLen == 40
TitleMaxLen == 120

BookingState(step, email, phone, start_iso, title) ==
  [step |-> step, email |-> email, phone |-> phone, start_iso |-> start_iso, title |-> title]

DefaultState == BookingState("ask_email_phone", None, None, None, None)

ChatYes == { <<"y","e","s">>, <<"y">>, <<"y","e","a","h">>, <<"y","e","p">>,
             <<"c","o","n","f","i","r","m">>, <<"o","k">>, <<"o","k","a","y">>,
             <<"s","u","r","e">> }

ChatNo == { <<"n","o">>, <<"n">>, <<"n","o","p","e">>,
            <<"c","a","n","c","e","l">>, <<"r","e","s","t","a","r","t">> }

_is_yes(text) == Lower(Strip(IF text = None THEN <<>> ELSE text)) \in ChatYes

_is_no(text) == Lower(Strip(IF text = None THEN <<>> ELSE text)) \in ChatNo

\* what datetime.fromisoformat accepts, on lexical tokens
FromIsoFormatOk(s) ==
  s \in { <<"DATE">>, <<"DATE","T","TIME">>, <<"DATE","T","TIME","OFF">> }

\* the text handed to fromisoformat: stripped, a trailing Z rewritten to +00:00
IsoPrepared(s) ==
  LET s2 == Strip(s)
  IN IF s2 # <<>> /\ s2[Len(s2)] = "Z" THEN SubSeq(s2, 1, Len(s2) - 1) \o <<"OFF">> ELSE s2

\* TRUE iff _parse_iso_datetime returns a datetime (not None)
_parse_iso_datetime(s) == Truthy(s) /\ FromIsoFormatOk(IsoPrepared(s))

\* the timestamp text carries an offset or a trailing UTC designator
HasTimezone(s) ==
  /\ Truthy(s)
  /\ LET s2 == Strip(s) IN s2 # <<>> /\ s2[Len(s2)] \in {"OFF", "Z"}

----------------------------------------------------------------------------
(* chat.py: the extraction result and the step machine of chat_stream *)

Extracted(email, email_ok, phone, phone_ok, start_iso, start_ok, title, confirm) ==
  [email |-> email, email_ok |-> email_ok, phone |-> phone, phone_ok |-> phone_ok,
   start_iso |-> start_iso, start_ok |-> start_ok, title |-> title, confirm |-> confirm]

\* the "safe fallback" of llm_extract_and_validate
SafeFallback == Extracted(None, FALSE, None, FALSE, None, FALSE, None, NoConfirm)

\* as ResolveConfirm, but a confirmation the extractor left null counts as yes
ResolveConfirm_defaults_yes(user_text, ex) ==
  IF _is_yes(user_text) THEN "yes"
  ELSE IF _is_no(user_text) THEN "no"
  ELSE IF ex.confirm = NoConfirm THEN "yes" ELSE ex.confirm

\* confirm = ex.get("confirm"); explicit user yes/no wins
ResolveConfirm(user_text, ex) ==
  IF _is_yes(user_text) THEN "yes"
  ELSE IF _is_no(user_text) THEN "no"
  ELSE ex.confirm

Plan(st, planned) == [st |-> st, planned |-> planned]

\* as StepAskEmailPhone, but the fields are written whatever email_ok and phone_ok say
StepAskEmailPhone_ignores_ok(st, ex) ==
  LET email == IF Truthy(ex.email) THEN Lower(Strip(ex.email)) ELSE st.email
      phone == IF Truthy(ex.phone) THEN Take(Strip(ex.phone), PhoneMaxLen) ELSE st.phone
      st1   == [st EXCEPT !.email = email, !.phone = phone]
  IN IF ~Truthy(email) \/ ~Truthy(phone)
       THEN Plan(st1, "need_contact")
       ELSE Plan([st1 EXCEPT !.step = "confirm_contact"], "confirm_contact_summary")

\* as StepAskEmailPhone, but a field the turn did not extract is dropped
StepAskEmailPhone_forgets(st, ex) ==
  LET email == IF ex.email_ok /\ Truthy(ex.email) THEN Lower(Strip(ex.email)) ELSE None
      phone == IF ex.phone_ok /\ Truthy(ex.phone)
                 THEN Take(Strip(ex.phone), PhoneMaxLen) ELSE None
      st1   == [st EXCEPT !.email = email, !.phone = phone]
  IN IF ~Truthy(email) \/ ~Truthy(phone)
       THEN Plan(st1, "need_contact")
       ELSE Plan([st1 EXCEPT !.step = "confirm_contact"], "confirm_contact_summary")

StepAskEmailPhone(st, ex) ==
  LET email == IF ex.email_ok /\ Truthy(ex.email) THEN Lower(Strip(ex.email)) ELSE st.email
      phone == IF ex.phone_ok /\ Truthy(ex.phone)
                 THEN Take(Strip(ex.phone), PhoneMaxLen) ELSE st.phone
      st1   == [st EXCEPT !.email = email, !.phone = phone]
  IN IF ~Truthy(email) \/ ~Truthy(phone)
       THEN Plan(st1, "need_contact")
       ELSE Plan([st1 EXCEPT !.step = "confirm_contact"], "confirm_contact_summary")

StepConfirmContact(st, confirm) ==
  IF confirm = "no"
    THEN Plan(DefaultState, "contact_again")
  ELSE IF confirm = "yes"
    THEN Plan([st EXCEPT !.step = "ask_time"], "ask_time")
  ELSE Plan(st, "reprompt_contact")

\* as StepAskTime, but the extracted time is stored without being parsed
StepAskTime_unparsed(st, ex) ==
  IF ex.start_ok /\ Truthy(ex.start_iso)
    THEN Plan([st EXCEPT !.start_iso = ex.start_iso, !.step = "ask_title"], "ask_title")
    ELSE Plan(st, "time_not_understood")

StepAskTime(st, ex) ==
  IF ex.start_ok /\ Truthy(ex.start_iso)
    THEN IF ~_parse_iso_datetime(ex.start_iso)
           THEN Plan(st, "time_unparseable")
           ELSE Plan([st EXCEPT !.start_iso = ex.start_iso, !.step = "ask_title"], "ask_title")
    ELSE Plan(st, "time_not_understood")

SkipWords == { <<"s","k","i","p">>, <<"n","o">>, <<"n","o","n","e">> }

StepAskTitle(st, user_text, ex) ==
  LET t == Strip(IF Truthy(ex.title) THEN ex.title ELSE user_text)
      title == IF Lower(t) \in SkipWords THEN DEFAULT_TITLE
               ELSE IF t # <<>> THEN Take(t, TitleMaxLen) ELSE DEFAULT_TITLE
  IN Plan([st EXCEPT !.title = title, !.step = "confirm_all"], "confirm_all_summary")

\* as StepConfirmAll, but a reject clears the title too
StepConfirmAll_clears_title(st, confirm) ==
  IF confirm = "no"
    THEN Plan([st EXCEPT !.step = "ask_time", !.start_iso = None, !.title = None],
              "pick_new_time")
  ELSE IF confirm = "yes"
    THEN Plan(st, "creating_now")
  ELSE Plan(st, "reprompt_create")

StepConfirmAll(st, confirm) ==
  IF confirm = "no"
    THEN Plan([st EXCEPT !.step = "ask_time", !.start_iso = None], "pick_new_time")
  ELSE IF confirm = "yes"
    THEN Plan(st, "creating_now")
  ELSE Plan(st, "reprompt_create")

\* as StepDone, but a turn at done reopens the final confirmation
StepDone_reopens(st) == Plan([st EXCEPT !.step = "confirm_all"], "already_created")

\* st.step == "done": the fixed reply, nothing assigned
StepDone(st) == Plan(st, "already_created")

\* the if/elif chain over st.step
StepMachine(st, user_text, ex, confirm) ==
  CASE st.step = "ask_email_phone" -> StepAskEmailPhone(st, ex)
    [] st.step = "confirm_contact" -> StepConfirmContact(st, confirm)
    [] st.step = "ask_time"        -> StepAskTime(st, ex)
    [] st.step = "ask_title"       -> StepAskTitle(st, user_text, ex)
    [] st.step = "confirm_all"     -> StepConfirmAll(st, confirm)
    [] st.step = "done"            -> StepDone(st)
    [] OTHER                       -> Plan(st, "")

\* as CommitGuard, but without the test of the step
CommitGuard_any_step(st2, confirm) ==
  /\ confirm = "yes"
  /\ Truthy(st2.start_iso)
  /\ Truthy(st2.email)
  /\ Truthy(st2.phone)

\* the guard of the commit block of sse()
CommitGuard(st2, confirm) ==
  /\ st2.step = "confirm_all"
  /\ confirm = "yes"
  /\ Truthy(st2.start_iso)
  /\ Truthy(st2.email)
  /\ Truthy(st2.phone)

----------------------------------------------------------------------------
(* The session store: SESSIONS of app.py, shared by chat.py, voice.py and
   oauth_google.py *)

NoCsrf == "none"

\* an identifier without an entry in the dict. voice_history is the list under
\* the key of that name, its entries [role, n] with n the ordinal of the message
\* among those the session ever appended; spoken counts these appends.
NoEntry == [present |-> FALSE, has_state |-> FALSE, booking_state |-> DefaultState,
            google_tokens |-> FALSE, oauth_csrf |-> NoCsrf,
            has_history |-> FALSE, voice_history |-> <<>>, spoken |-> 0]

\* _sessions.setdefault(sid, {})
SetDefault(sess, sid) == [sess EXCEPT ![sid].present = TRUE]

\* the store after _load_state(sid)
LoadStore(sess, sid) ==
  IF sess[sid].has_state THEN SetDefault(sess, sid)
  ELSE [sess EXCEPT ![sid].present = TRUE, ![sid].has_state = TRUE,
                    ![sid].booking_state = DefaultState]

\* the state _load_state(sid) returns
_load_state(sess, sid) == IF sess[sid].has_state THEN sess[sid].booking_state ELSE DefaultState

\* as _save_state, but the state is written to every entry of the store
_save_state_shared(sess, sid, st) ==
  [x \in DOMAIN sess |->
     [sess[x] EXCEPT !.present = TRUE, !.has_state = TRUE, !.booking_state = st]]

\* the store after _save_state(sid, st)
_save_state(sess, sid, st) ==
  [sess EXCEPT ![sid].present = TRUE, ![sid].has_state = TRUE, ![sid].booking_state = st]

_get_tokens(sess, sid) == sess[sid].google_tokens

----------------------------------------------------------------------------
(* One chat request: the locals of chat_stream and of its generator sse() *)

\* saves counts the _save_state calls of the turn; out is what the turn emitted so
\* far, in order, with "call" marking the start of the CreateEvent call
IdleReq == [pc |-> "idle", sid |-> "s1", user_text |-> <<>>, loaded |-> DefaultState,
            st |-> DefaultState, ex |-> SafeFallback, confirm |-> NoConfirm,
            planned |-> "", st2 |-> DefaultState, request_id |-> 0, outcome |-> "none",
            saves |-> 0, out |-> <<>>]

\* One voice request: the locals of voice_chat_stream and of its generator sse().
\* hist0 is the session's history when the turn began; assistant_text is the reply
\* accumulated so far, one element per chunk.
IdleVReq == [pc |-> "idle", sid |-> "s1", user_text |-> <<>>, hist0 |-> <<>>,
             assistant_text |-> <<>>, request_id |-> 0, outcome |-> "none", out |-> <<>>]

\* agent_state.py: the dataclass BookingState and its defaults
AgentBookingState(step, email, phone, title) ==
  [step |-> step, email |-> email, phone |-> phone, title |-> title]

AgentDefaultState == AgentBookingState("ask_email", None, None, DEFAULT_TITLE)

\* before the first call of handle_user_message: a fresh BookingState()
AgentInit == [state |-> AgentDefaultState, prev |-> AgentDefaultState, user_text |-> <<>>,
              reply |-> "", action |-> "none"]

Init ==
  /\ sessions = [s \in Sids |-> NoEntry]
  /\ req = [r \in Reqs |-> IdleReq]
  /\ attempts = 0
  /\ created = [s \in Sids |-> 0]
  /\ last_failed = [s \in Sids |-> 0]
  /\ vreq = [v \in VReqs |-> IdleVReq]
  /\ agent = AgentInit

----------------------------------------------------------------------------
(* oauth_google.py *)

\* GET /auth/google: csrf is the value secrets.token_urlsafe returned
auth_google(s, csrf) ==
  /\ sessions' = [sessions EXCEPT ![s].present = TRUE, ![s].oauth_csrf = csrf]
  /\ UNCHANGED <<req, attempts, created, last_failed, vreq, agent>>

\* as auth_callback, but the state parameter is not compared with the stored value
auth_callback_unchecked(s, state) ==
  /\ sessions' = [sessions EXCEPT ![s].present = TRUE, ![s].google_tokens = TRUE]
  /\ UNCHANGED <<req, attempts, created, last_failed, vreq, agent>>

\* GET /google/callback with query parameter state
auth_callback(s, state) ==
  LET saved == sessions[s].oauth_csrf
  IN /\ IF saved = NoCsrf \/ saved # state
          THEN sessions' = sessions
          ELSE sessions' = [sessions EXCEPT ![s].present = TRUE, ![s].google_tokens = TRUE]
     /\ UNCHANGED <<req, attempts, created, last_failed, vreq, agent>>

----------------------------------------------------------------------------
(* chat.py: POST /api/chat/stream *)

\* the handler up to the credential gate: payload, sid, _load_state, _get_tokens.
\* The handler is a coroutine that never awaits between _load_state and
\* _save_state, so the event loop runs one handler body at a time; the generators
\* sse() and one() run in worker threads and overlap with it.
chat_stream(r, s, u) ==
  /\ req[r].pc = "idle"
  /\ \A q \in Reqs : req[q].pc \notin {"extract", "decide"}
  /\ LET st == _load_state(sessions, s)
     IN req' = [req EXCEPT ![r] =
                  [IdleReq EXCEPT !.pc = IF _get_tokens(sessions, s) THEN "extract"
                                         ELSE "not_connected",
                                  !.sid = s, !.user_text = Strip(u),
                                  !.loaded = st, !.st = st,
                                  !.out = IF _get_tokens(sessions, s) THEN <<>>
                                          ELSE <<"not_connected_text">>]]
  /\ sessions' = LoadStore(sessions, s)
  /\ UNCHANGED <<attempts, created, last_failed, vreq, agent>>

\* the model call returned JSON text that json.loads accepted
llm_extract_and_validate(r, ex) ==
  /\ req[r].pc = "extract"
  /\ req' = [req EXCEPT ![r].pc = "decide", ![r].ex = ex]
  /\ UNCHANGED <<sessions, attempts, created, last_failed, vreq, agent>>

\* json.loads failed: the safe fallback
llm_extract_fallback(r) ==
  /\ req[r].pc = "extract"
  /\ req' = [req EXCEPT ![r].pc = "decide", ![r].ex = SafeFallback]
  /\ UNCHANGED <<sessions, attempts, created, last_failed, vreq, agent>>

\* client.responses.create raised (it is outside the try): the request ends in an error
llm_extract_raises(r) ==
  /\ req[r].pc = "extract"
  /\ req' = [req EXCEPT ![r] = IdleReq]
  /\ UNCHANGED <<sessions, attempts, created, last_failed, vreq, agent>>

\* confirm resolution, the step machine and _save_state(sid, st)
chat_stream_decide(r) ==
  /\ req[r].pc = "decide"
  /\ LET q       == req[r]
         confirm == ResolveConfirm(q.user_text, q.ex)
         plan    == StepMachine(q.st, q.user_text, q.ex, confirm)
     IN /\ sessions' = _save_state(sessions, q.sid, plan.st)
        /\ req' = [req EXCEPT ![r].pc = "stream", ![r].confirm = confirm,
                              ![r].st = plan.st, ![r].planned = plan.planned,
                              ![r].saves = @ + 1]
        /\ last_failed' = IF q.st.step = "confirm_all" /\ confirm = "no"
                            THEN [last_failed EXCEPT ![q.sid] = 0] ELSE last_failed
  /\ UNCHANGED <<attempts, created, vreq, agent>>

\* sse() part A failed: llm_stream_reply raised and the response stream broke off
sse_reply_raises(r) ==
  /\ req[r].pc = "stream"
  /\ req' = [req EXCEPT ![r] = IdleReq]
  /\ UNCHANGED <<sessions, attempts, created, last_failed, vreq, agent>>

\* the number of reply fragments among the events emitted
Deltas(out) == Cardinality({i \in DOMAIN out : out[i] = "delta"})

\* as sse_chunk, but fragments are still forwarded while the calendar call runs
sse_chunk_during_call(r) ==
  /\ req[r].pc \in {"stream", "creating"}
  /\ Deltas(req[r].out) < MaxChunks
  /\ req' = [req EXCEPT ![r].out = Append(@, "delta")]
  /\ UNCHANGED <<sessions, attempts, created, last_failed, vreq, agent>>

\* sse() part A: one fragment of llm_stream_reply forwarded as a delta event
sse_chunk(r) ==
  /\ req[r].pc = "stream"
  /\ Deltas(req[r].out) < MaxChunks
  /\ req' = [req EXCEPT ![r].out = Append(@, "delta")]
  /\ UNCHANGED <<sessions, attempts, created, last_failed, vreq, agent>>

\* sse() part A done, then part B up to the CreateEvent call: st2 = _load_state(sid),
\* the guard, the parse of st2.start_iso, and the request id minted by
\* create_google_calendar_event (uuid4: a value no earlier call had)
sse_after_reply(r) ==
  /\ req[r].pc = "stream"
  /\ LET q   == req[r]
         st2 == _load_state(sessions, q.sid)
     IN /\ sessions' = LoadStore(sessions, q.sid)
        /\ IF ~CommitGuard(st2, q.confirm)
             THEN /\ req' = [req EXCEPT ![r].pc = "finish", ![r].st2 = st2,
                                        ![r].outcome = "no_commit"]
                  /\ attempts' = attempts
           ELSE IF ~_parse_iso_datetime(st2.start_iso)
             THEN /\ req' = [req EXCEPT ![r].pc = "finish", ![r].st2 = st2,
                                        ![r].outcome = "internal_error",
                                        ![r].out = Append(@, "internal_error_text")]
                  /\ attempts' = attempts
           ELSE /\ attempts < MaxAttempts
                /\ req' = [req EXCEPT ![r].pc = "creating", ![r].st2 = st2,
                                      ![r].request_id = attempts + 1,
                                      ![r].out = Append(@, "call")]
                /\ attempts' = attempts + 1
  /\ UNCHANGED <<created, last_failed, vreq, agent>>

\* as create_event_returns, but the step done is not saved
create_event_returns_unsaved(r) ==
  /\ req[r].pc = "creating"
  /\ LET q    == req[r]
         done == [q.st2 EXCEPT !.step = "done"]
     IN /\ sessions' = sessions
        /\ created' = [created EXCEPT ![q.sid] = @ + 1]
        /\ req' = [req EXCEPT ![r].pc = "finish", ![r].st2 = done, ![r].outcome = "created",
                              ![r].out = Append(@, "created_text")]
        /\ last_failed' = [last_failed EXCEPT ![q.sid] = 0]
  /\ UNCHANGED <<attempts, vreq, agent>>

\* create_google_calendar_event returned: st2.step = "done"; _save_state(sid, st2)
create_event_returns(r) ==
  /\ req[r].pc = "creating"
  /\ LET q    == req[r]
         done == [q.st2 EXCEPT !.step = "done"]
     IN /\ sessions' = _save_state(sessions, q.sid, done)
        /\ created' = [created EXCEPT ![q.sid] = @ + 1]
        /\ req' = [req EXCEPT ![r].pc = "finish", ![r].st2 = done, ![r].outcome = "created",
                              ![r].saves = @ + 1, ![r].out = Append(@, "created_text")]
        /\ last_failed' = [last_failed EXCEPT ![q.sid] = 0]
  /\ UNCHANGED <<attempts, vreq, agent>>

\* as create_event_raises, but the failure path sends the session back to ask_time
create_event_raises_rewinds(r) ==
  /\ req[r].pc = "creating"
  /\ sessions' = _save_state(sessions, req[r].sid, [req[r].st2 EXCEPT !.step = "ask_time"])
  /\ req' = [req EXCEPT ![r].pc = "finish", ![r].outcome = "failed",
                        ![r].out = Append(@, "failed_text")]
  /\ last_failed' = [last_failed EXCEPT ![req[r].sid] = req[r].request_id]
  /\ UNCHANGED <<attempts, created, vreq, agent>>

\* as create_event_raises, but the failure path also records the booking as done
create_event_raises_marks_done(r) ==
  /\ req[r].pc = "creating"
  /\ sessions' = _save_state(sessions, req[r].sid, [req[r].st2 EXCEPT !.step = "done"])
  /\ req' = [req EXCEPT ![r].pc = "finish", ![r].outcome = "failed",
                        ![r].out = Append(@, "failed_text")]
  /\ last_failed' = [last_failed EXCEPT ![req[r].sid] = req[r].request_id]
  /\ UNCHANGED <<attempts, created, vreq, agent>>

\* create_google_calendar_event raised (non-2xx status, timeout, transport error)
create_event_raises(r) ==
  /\ req[r].pc = "creating"
  /\ req' = [req EXCEPT ![r].pc = "finish", ![r].outcome = "failed",
                        ![r].out = Append(@, "failed_text")]
  /\ last_failed' = [last_failed EXCEPT ![req[r].sid] = req[r].request_id]
  /\ UNCHANGED <<sessions, attempts, created, vreq, agent>>

\* the terminal {'type':'done'} event of sse() and of one(); the request ends and
\* what it emitted stays on record until the next one begins
sse_done(r) ==
  /\ req[r].pc \in {"finish", "not_connected"}
  /\ req' = [req EXCEPT ![r] = [IdleReq EXCEPT !.out = Append(req[r].out, "done")]]
  /\ UNCHANGED <<sessions, attempts, created, last_failed, vreq, agent>>

----------------------------------------------------------------------------
(* agent_state.py: the standalone engine *)

\* the dict handle_user_message(state, user_text) returns; the function assigns to
\* the fields of the object it was given and returns that object
handle_user_message(state, user_text0) ==
  LET user_text == Strip(IF user_text0 = None THEN <<>> ELSE user_text0)
      Result(st, reply, action) == [state |-> st, reply |-> reply, action |-> action]
      yn == parse_yes_no(user_text)
  IN CASE state.step = "ask_email" ->
            IF ~is_valid_email(user_text)
              THEN Result(state, "ask_valid_email", "none")
            ELSE Result([state EXCEPT !.email = Lower(Strip(user_text)),
                                      !.step = "ask_phone"], "ask_phone", "none")
       [] state.step = "ask_phone" ->
            IF ~is_valid_phone(user_text)
              THEN Result(state, "ask_valid_phone", "none")
            ELSE Result([state EXCEPT !.phone = normalize_phone(user_text),
                                      !.step = "confirm"], "confirmation", "none")
       [] state.step = "confirm" ->
            IF yn = NoConfirm THEN Result(state, "reprompt_yes_no", "none")
            ELSE IF yn = "no"
              THEN Result(AgentBookingState("ask_email", None, None, state.title),
                          "start_over", "none")
            ELSE Result([state EXCEPT !.step = "done"], "creating", "create_meeting")
       [] state.step = "done" -> Result(state, "already_completed", "none")
       [] OTHER -> Result(state, "not_sure", "none")

\* one call by a caller that passes the state of the previous result back in; prev
\* is the state as it was at the call
agent_turn(u) ==
  /\ agent' = LET res == handle_user_message(agent.state, u)
               IN [state |-> res.state, prev |-> agent.state, user_text |-> u,
                   reply |-> res.reply, action |-> res.action]
  /\ UNCHANGED <<sessions, req, attempts, created, last_failed, vreq>>

----------------------------------------------------------------------------
(* voice.py: POST /api/voice/chat/stream *)

HistoryMax == 20

\* history[-20:]
LastEntries(h) ==
  IF Len(h) <= HistoryMax THEN h ELSE SubSeq(h, Len(h) - HistoryMax + 1, Len(h))

\* the list _get_history(sid) returns
_get_history(sess, sid) == IF sess[sid].has_history THEN sess[sid].voice_history ELSE <<>>

\* the store after _get_history(sid)
HistoryStore(sess, sid) ==
  [sess EXCEPT ![sid].present = TRUE, ![sid].has_history = TRUE,
               ![sid].voice_history = _get_history(sess, sid)]

\* as AppendHistory, but the window keeps the oldest entries
AppendHistory_keeps_oldest(sess, sid, role) ==
  LET h == Append(sess[sid].voice_history, [role |-> role, n |-> sess[sid].spoken + 1])
  IN [sess EXCEPT ![sid].voice_history = SubSeq(h, 1, IF Len(h) <= HistoryMax THEN Len(h)
                                                       ELSE HistoryMax),
                  ![sid].spoken = @ + 1]

\* history.append({"role": role, ...}); history[:] = history[-20:]. The local
\* history is the list object the store holds, so both statements act on the store.
AppendHistory(sess, sid, role) ==
  [sess EXCEPT ![sid].voice_history =
                 LastEntries(Append(@, [role |-> role, n |-> sess[sid].spoken + 1])),
               ![sid].spoken = @ + 1]

CONFIRMED == <<"C","O","N","F","I","R","M","E","D">>

\* pat in text
Contains(text, pat) ==
  \E i \in 0..(Len(text) - Len(pat)) : SubSeq(text, i + 1, i + Len(pat)) = pat

\* the handler: user_text, the empty-utterance reply, sid, _get_history, the append
\* of the user message, _get_tokens and the credential gate. It runs on the event
\* loop, so not while the body of a chat handler does.
voice_chat_stream(v, s, u) ==
  /\ vreq[v].pc = "idle"
  /\ \A q \in Reqs : req[q].pc \notin {"extract", "decide"}
  /\ IF Strip(u) = <<>>
       THEN /\ vreq' = [vreq EXCEPT ![v] = [IdleVReq EXCEPT !.pc = "empty",
                                                            !.out = <<"empty_text">>]]
            /\ sessions' = sessions
       ELSE /\ sessions[s].spoken < MaxSpoken
            /\ sessions' = AppendHistory(HistoryStore(sessions, s), s, "user")
            /\ vreq' = [vreq EXCEPT ![v] =
                          [IdleVReq EXCEPT !.pc = IF _get_tokens(sessions, s) THEN "stream"
                                                  ELSE "not_connected",
                                           !.sid = s, !.user_text = Strip(u),
                                           !.hist0 = _get_history(sessions, s),
                                           !.out = IF _get_tokens(sessions, s) THEN <<>>
                                                   ELSE <<"not_connected_text">>]]
  /\ UNCHANGED <<req, attempts, created, last_failed, agent>>

\* as voice_chunk, but fragments are still forwarded while the calendar call runs
voice_chunk_during_call(v, chunk) ==
  /\ vreq[v].pc \in {"stream", "creating"}
  /\ Deltas(vreq[v].out) < MaxChunks
  /\ vreq' = [vreq EXCEPT ![v].assistant_text = @ \o chunk, ![v].out = Append(@, "delta")]
  /\ UNCHANGED <<sessions, req, attempts, created, last_failed, agent>>

\* sse(): one chunk of _stream_assistant added to assistant_text and forwarded
voice_chunk(v, chunk) ==
  /\ vreq[v].pc = "stream"
  /\ Deltas(vreq[v].out) < MaxChunks
  /\ vreq' = [vreq EXCEPT ![v].assistant_text = @ \o chunk, ![v].out = Append(@, "delta")]
  /\ UNCHANGED <<sessions, req, attempts, created, last_failed, agent>>

\* _stream_assistant raised and the response stream broke off, the user message
\* left unanswered in the history (explored among the first MaxBroken messages)
voice_stream_raises(v) ==
  /\ vreq[v].pc = "stream"
  /\ sessions[vreq[v].sid].spoken <= MaxBroken
  /\ vreq' = [vreq EXCEPT ![v] = IdleVReq]
  /\ UNCHANGED <<sessions, req, attempts, created, last_failed, agent>>

\* the stream ended: the assistant message is appended, and a reply that contains
\* CONFIRMED announces the booking
voice_after_reply(v) ==
  /\ vreq[v].pc = "stream"
  /\ sessions[vreq[v].sid].spoken < MaxSpoken
  /\ sessions' = AppendHistory(sessions, vreq[v].sid, "assistant")
  /\ vreq' = IF Contains(vreq[v].assistant_text, CONFIRMED)
              THEN [vreq EXCEPT ![v].pc = "finalize", ![v].out = Append(@, "fixed_text")]
              ELSE [vreq EXCEPT ![v].pc = "finish"]
  /\ UNCHANGED <<req, attempts, created, last_failed, agent>>

\* _llm_finalize_event, datetime.fromisoformat or int() raised
voice_finalize_raises(v) ==
  /\ vreq[v].pc = "finalize"
  /\ vreq' = [vreq EXCEPT ![v].pc = "finish", ![v].outcome = "failed",
                          ![v].out = Append(@, "failed_text")]
  /\ UNCHANGED <<sessions, req, attempts, created, last_failed, agent>>

\* the event data were extracted and parsed: create_google_calendar_event is
\* called and mints its request id
voice_create_call(v) ==
  /\ vreq[v].pc = "finalize"
  /\ attempts < MaxAttempts
  /\ vreq' = [vreq EXCEPT ![v].pc = "creating", ![v].request_id = attempts + 1,
                          ![v].out = Append(@, "call")]
  /\ attempts' = attempts + 1
  /\ UNCHANGED <<sessions, req, created, last_failed, agent>>

\* create_google_calendar_event returned: the booked text, then
\* _sessions[sid]["voice_history"] = []
voice_create_returns(v) ==
  /\ vreq[v].pc = "creating"
  /\ sessions' = [sessions EXCEPT ![vreq[v].sid].voice_history = <<>>]
  /\ created' = [created EXCEPT ![vreq[v].sid] = @ + 1]
  /\ vreq' = [vreq EXCEPT ![v].pc = "finish", ![v].outcome = "created",
                          ![v].out = Append(@, "created_text")]
  /\ UNCHANGED <<req, attempts, last_failed, agent>>

\* as voice_create_raises, but the failure path empties the history too
voice_create_raises_resets(v) ==
  /\ vreq[v].pc = "creating"
  /\ sessions' = [sessions EXCEPT ![vreq[v].sid].voice_history = <<>>]
  /\ vreq' = [vreq EXCEPT ![v].pc = "finish", ![v].outcome = "failed",
                          ![v].out = Append(@, "failed_text")]
  /\ UNCHANGED <<req, attempts, created, last_failed, agent>>

\* create_google_calendar_event raised
voice_create_raises(v) ==
  /\ vreq[v].pc = "creating"
  /\ vreq' = [vreq EXCEPT ![v].pc = "finish", ![v].outcome = "failed",
                          ![v].out = Append(@, "failed_text")]
  /\ UNCHANGED <<sessions, req, attempts, created, last_failed, agent>>

\* the final_text and done events of sse() and of one(); the request ends and what
\* it emitted stays on record until the next one begins
voice_done(v) ==
  /\ vreq[v].pc \in {"finish", "empty", "not_connected"}
  /\ vreq' = [vreq EXCEPT ![v] =
                [IdleVReq EXCEPT !.out = vreq[v].out \o <<"final_text", "done">>]]
  /\ UNCHANGED <<sessions, req, attempts, created, last_failed, agent>>

----------------------------------------------------------------------------
(* Inputs *)

U_yes == <<" ","Y","e","s"," ">>
U_no == <<"n","o">>
U_skip == <<"s","k","i","p">>
U_hello == <<"h","e","l","l","o">>

Utterances == {U_yes, U_no, U_skip, U_hello}

EmailGood == <<" ","A","@","b",".","c"," ">>
EmailBad == <<"a","b">>
Blank == <<" ">>
PhoneGood == <<"+","1","4","1","5","5","5","5","2","6","7","1">>
PhoneBad == <<"1","2">>
StartAware == <<"DATE","T","TIME","OFF">>
StartZ == <<" ","DATE","T","TIME","Z">>
StartNaive == <<"DATE","T","TIME">>
StartJunk == <<"x">>
TitleSync == <<"S","y","n","c">>

\* (value, ok) pairs the extractor may produce for one field
EmailPairs == {<<None, FALSE>>, <<EmailGood, TRUE>>, <<EmailGood, FALSE>>,
               <<EmailBad, TRUE>>, <<Blank, TRUE>>}
PhonePairs == {<<None, FALSE>>, <<PhoneGood, TRUE>>, <<PhoneGood, FALSE>>,
               <<PhoneBad, TRUE>>, <<Blank, TRUE>>}
StartPairs == {<<None, FALSE>>, <<StartAware, TRUE>>, <<StartAware, FALSE>>,
               <<StartZ, TRUE>>, <<StartNaive, TRUE>>, <<StartJunk, TRUE>>}
Confirms == {"yes", "no", NoConfirm}

\* extraction results: every combination within one group of fields, the other
\* groups absent, and the results with all groups present
ExtractionResults ==
  { Extracted(e[1], e[2], p[1], p[2], None, FALSE, None, NoConfirm) :
      e \in EmailPairs, p \in PhonePairs }
  \cup { Extracted(None, FALSE, None, FALSE, t[1], t[2], None, NoConfirm) : t \in StartPairs }
  \cup { Extracted(None, FALSE, None, FALSE, None, FALSE, ti, c) :
           ti \in {None, TitleSync}, c \in Confirms }
  \cup { Extracted(EmailGood, TRUE, PhoneGood, TRUE, t[1], t[2], TitleSync, c) :
           t \in {<<StartAware, TRUE>>, <<StartNaive, FALSE>>}, c \in Confirms }

CsrfTokens == {"c1", "c2"}

----------------------------------------------------------------------------
(* Serialized turns: one session, one request in flight at a time *)

Next ==
  \/ \E c \in {"c1"} : auth_google("s1", c)
  \/ \E state \in CsrfTokens : auth_callback("s1", state)
  \/ \E u \in Utterances : chat_stream("r1", "s1", u)
  \/ \E ex \in ExtractionResults : llm_extract_and_validate("r1", ex)
  \/ llm_extract_fallback("r1")
  \/ llm_extract_raises("r1")
  \/ chat_stream_decide("r1")
  \/ sse_reply_raises("r1")
  \/ sse_after_reply("r1")
  \/ create_event_returns("r1")
  \/ create_event_raises("r1")
  \/ sse_done("r1")

Spec == Init /\ [][Next]_vars

----------------------------------------------------------------------------
(* Serialized turns over the yes/no vocabulary: every recognized token as the
   whole utterance, against every confirmation the extractor may infer *)

SpecAffirmative == { <<"y","e","s">>, <<"y">>, <<"y","e","a","h">>, <<"y","e","p">>, <<"c","o","n","f","i","r","m">>, <<"c","o","r","r","e","c","t">>, <<"o","k">>, <<"o","k","a","y">>, <<"s","u","r","e">> }

SpecNegative == { <<"n","o">>, <<"n">>, <<"n","o","p","e">>, <<"c","a","n","c","e","l">>, <<"r","e","s","t","a","r","t">> }

U_no_thanks == <<"n","o"," ","t","h","a","n","k","s">>

TokenUtterances == SpecAffirmative \cup SpecNegative \cup {U_no_thanks, U_hello, U_yes}

AllGood(c) == Extracted(EmailGood, TRUE, PhoneGood, TRUE, StartAware, TRUE, TitleSync, c)

TokenExtractions == { AllGood(c) : c \in Confirms }

NextTokens ==
  \/ \E c \in {"c1"} : auth_google("s1", c)
  \/ \E state \in CsrfTokens : auth_callback("s1", state)
  \/ \E u \in TokenUtterances : chat_stream("r1", "s1", u)
  \/ \E ex \in TokenExtractions : llm_extract_and_validate("r1", ex)
  \/ llm_extract_fallback("r1")
  \/ llm_extract_raises("r1")
  \/ chat_stream_decide("r1")
  \/ sse_reply_raises("r1")
  \/ sse_after_reply("r1")
  \/ create_event_returns("r1")
  \/ create_event_raises("r1")
  \/ sse_done("r1")

SpecTokens == Init /\ [][NextTokens]_vars

----------------------------------------------------------------------------
(* Overlapping requests of one session: the handler runs on the event loop and
   the generator sse() in a worker thread, and nothing orders the requests of
   one session, so the steps of two requests interleave freely *)

ConcUtterances == {U_yes, U_no}

ConcExtractions == { AllGood(NoConfirm) }

NextConc ==
  \/ \E c \in {"c1"} : auth_google("s1", c)
  \/ \E state \in {"c1"} : auth_callback("s1", state)
  \/ \E r \in Reqs :
       \/ \E u \in ConcUtterances : chat_stream(r, "s1", u)
       \/ \E ex \in ConcExtractions : llm_extract_and_validate(r, ex)
       \/ chat_stream_decide(r)
       \/ sse_after_reply(r)
       \/ create_event_returns(r)
       \/ create_event_raises(r)
       \/ sse_done(r)

SpecConc == Init /\ [][NextConc]_vars

----------------------------------------------------------------------------
(* Serialized voice turns of one session, long enough to fill the history *)

VoiceUtterances == {U_hello, Blank}

C_ok == <<"o","k">>

VoiceChunks == {C_ok, CONFIRMED}

NextVoice ==
  \/ \E c \in {"c1"} : auth_google("s1", c)
  \/ \E state \in {"c1"} : auth_callback("s1", state)
  \/ \E u \in VoiceUtterances : voice_chat_stream("v1", "s1", u)
  \/ \E chunk \in VoiceChunks : voice_chunk("v1", chunk)
  \/ voice_stream_raises("v1")
  \/ voice_after_reply("v1")
  \/ voice_finalize_raises("v1")
  \/ voice_create_call("v1")
  \/ voice_create_returns("v1")
  \/ voice_create_raises("v1")
  \/ voice_done("v1")

SpecVoice == Init /\ [][NextVoice]_vars

----------------------------------------------------------------------------
(* One session with a chat request and a voice request, a short conversation on
   each endpoint, reply fragments forwarded one by one *)

BothExtractions == {AllGood("yes"), AllGood(NoConfirm)}

NextBoth ==
  \/ \E c \in {"c1"} : auth_google("s1", c)
  \/ \E state \in {"c1"} : auth_callback("s1", state)
  \/ \E u \in {U_yes} : chat_stream("r1", "s1", u)
  \/ \E ex \in BothExtractions : llm_extract_and_validate("r1", ex)
  \/ llm_extract_fallback("r1")
  \/ llm_extract_raises("r1")
  \/ chat_stream_decide("r1")
  \/ sse_chunk("r1")
  \/ sse_reply_raises("r1")
  \/ sse_after_reply("r1")
  \/ create_event_returns("r1")
  \/ create_event_raises("r1")
  \/ sse_done("r1")
  \/ \E u \in VoiceUtterances :
       sessions["s1"].spoken < MaxBothSpoken /\ voice_chat_stream("v1", "s1", u)
  \/ \E chunk \in VoiceChunks : voice_chunk("v1", chunk)
  \/ voice_stream_raises("v1")
  \/ voice_after_reply("v1")
  \/ voice_finalize_raises("v1")
  \/ voice_create_call("v1")
  \/ voice_create_returns("v1")
  \/ voice_create_raises("v1")
  \/ voice_done("v1")

SpecBoth == Init /\ [][NextBoth]_vars

----------------------------------------------------------------------------
(* The standalone engine alone, and next to chat turns over the same contact
   details *)

EmailJohn == <<" ","J","o","h","n",".","D","o","e","@","E","x","a","m","p","l","e",".","C","O","M"," ">>
PhoneSpaced == <<"+","1"," ","(","4","1","5",")"," ","5","5","5","-","2","6","7","1">>
PhoneTwoPlus == <<"+","+","1","4","1","5","5","5","5","2","6","7","1">>
U_correct == <<"c","o","r","r","e","c","t">>
U_sure == <<"s","u","r","e">>

PhoneDashed == <<"4","1","5","-","5","5","5","-","2","6","7","1">>

AgentUtterances == {EmailJohn, EmailGood, EmailBad, PhoneSpaced, PhoneGood, PhoneBad,
                    PhoneTwoPlus, PhoneDashed, U_yes, U_correct, U_sure, U_no, U_hello,
                    U_skip, Blank}

NextAgent == \E u \in AgentUtterances : agent_turn(u)

SpecAgent == Init /\ [][NextAgent]_vars

NormExtractions ==
  { Extracted(EmailJohn, TRUE, PhoneSpaced, TRUE, None, FALSE, None, NoConfirm),
    Extracted(EmailGood, TRUE, PhoneGood, TRUE, None, FALSE, None, NoConfirm),
    Extracted(EmailJohn, TRUE, PhoneBad, FALSE, None, FALSE, None, NoConfirm) }

NextNorm ==
  \/ \E c \in {"c1"} : auth_google("s1", c)
  \/ \E state \in {"c1"} : auth_callback("s1", state)
  \/ \E u \in {U_hello, U_no} : chat_stream("r1", "s1", u)
  \/ \E ex \in NormExtractions : llm_extract_and_validate("r1", ex)
  \/ llm_extract_fallback("r1")
  \/ llm_extract_raises("r1")
  \/ chat_stream_decide("r1")
  \/ sse_reply_raises("r1")
  \/ sse_after_reply("r1")
  \/ sse_done("r1")
  \/ \E u \in {EmailJohn, PhoneSpaced, U_no} : agent_turn(u)

SpecNorm == Init /\ [][NextNorm]_vars

----------------------------------------------------------------------------
(* Two sessions: OAuth, chat turns and one voice turn on either *)

IsoExtractions == {Extracted(EmailGood, TRUE, PhoneGood, TRUE, None, FALSE, None, NoConfirm)}

NextIso ==
  \/ \E s \in Sids, c \in {"c1"} : auth_google(s, c)
  \/ \E s \in Sids, state \in {"c1"} : auth_callback(s, state)
  \/ \E s \in Sids, u \in {U_hello} : chat_stream("r1", s, u)
  \/ \E ex \in IsoExtractions : llm_extract_and_validate("r1", ex)
  \/ llm_extract_fallback("r1")
  \/ llm_extract_raises("r1")
  \/ chat_stream_decide("r1")
  \/ sse_reply_raises("r1")
  \/ sse_after_reply("r1")
  \/ sse_done("r1")
  \/ \E s \in Sids, u \in {U_hello} :
       sessions[s].spoken < MaxIsoSpoken /\ voice_chat_stream("v1", s, u)
  \/ \E chunk \in {C_ok} : voice_chunk("v1", chunk)
  \/ voice_stream_raises("v1")
  \/ voice_after_reply("v1")
  \/ voice_done("v1")

SpecIso == Init /\ [][NextIso]_vars

----------------------------------------------------------------------------
(* Two sessions and OAuth: each session is issued its own state value, and every
   callback presents the value issued to s2 *)

Issued == [s \in Sids |-> IF s = "s1" THEN "c1" ELSE "c2"]

Presented == "c2"

NextOAuth ==
  \/ \E s \in Sids : auth_google(s, Issued[s])
  \/ \E s \in Sids : auth_callback(s, Presented)
  \/ \E s \in Sids, u \in {U_hello} : chat_stream("r1", s, u)
  \/ \E ex \in IsoExtractions : llm_extract_and_validate("r1", ex)
  \/ llm_extract_fallback("r1")
  \/ llm_extract_raises("r1")
  \/ chat_stream_decide("r1")
  \/ sse_reply_raises("r1")
  \/ sse_after_reply("r1")
  \/ sse_done("r1")
  \/ \E s \in Sids, u \in {U_hello} :
       sessions[s].spoken < MaxIsoSpoken /\ voice_chat_stream("v1", s, u)
  \/ \E chunk \in {C_ok} : voice_chunk("v1", chunk)
  \/ voice_stream_raises("v1")
  \/ voice_after_reply("v1")
  \/ voice_done("v1")

SpecOAuth == Init /\ [][NextOAuth]_vars

----------------------------------------------------------------------------
(* Serialized turns of one session towards completion. The extractor may return
   junk or nothing, the user may reject or say something else, and a CreateEvent
   call may fail, but not the last one the bound allows. Fairness states what the
   environment eventually does: turns keep being processed, a yes keeps coming at
   each confirmation step, valid fields keep coming at each collecting step. *)

JunkAll == Extracted(EmailBad, FALSE, PhoneBad, FALSE, StartJunk, TRUE, None, NoConfirm)

LiveUtterances == {U_yes, U_no, U_hello}

LiveExtractions == {AllGood(NoConfirm), JunkAll}

\* the steps of turn processing
TurnStep ==
  \/ \E u \in LiveUtterances : chat_stream("r1", "s1", u)
  \/ \E ex \in LiveExtractions : llm_extract_and_validate("r1", ex)
  \/ llm_extract_fallback("r1")
  \/ chat_stream_decide("r1")
  \/ sse_after_reply("r1")
  \/ create_event_returns("r1")
  \/ sse_done("r1")

NextLive ==
  \/ auth_google("s1", "c1")
  \/ auth_callback("s1", "c1")
  \/ TurnStep
  \/ (attempts < MaxAttempts /\ create_event_raises("r1"))

\* the user says yes when the session is at confirmation step x
YesAt(x) == sessions["s1"].booking_state.step = x /\ chat_stream("r1", "s1", U_yes)

\* the extractor returns valid fields in a turn processed at collecting step x
ValidAt(x) ==
  req["r1"].loaded.step = x /\ llm_extract_and_validate("r1", AllGood(NoConfirm))

Fairness ==
  /\ WF_vars(auth_google("s1", "c1"))
  /\ WF_vars(auth_callback("s1", "c1"))
  /\ WF_vars(TurnStep)
  /\ SF_vars(YesAt("confirm_contact"))
  /\ SF_vars(YesAt("confirm_all"))
  /\ SF_vars(ValidAt("ask_email_phone"))
  /\ SF_vars(ValidAt("ask_time"))

SpecLive == Init /\ [][NextLive]_vars /\ Fairness

----------------------------------------------------------------------------
(* Properties *)

Stored(s) == sessions[s].booking_state

\* request r has run the step machine and saved its state
AfterDecide(r) == req[r].pc \in {"stream", "creating", "finish"}

\* request r has done everything but emit the terminal done event
TurnEnd(r) == req[r].pc = "finish"

\* C1: a turn at confirm_all whose confirmation resolves to yes ends with step
\* confirm_all and email, phone, start_iso and title as before when the CreateEvent
\* call fails, and with step done when it succeeds.
C1_CommitBeforeDone ==
  \A r \in Reqs :
    (TurnEnd(r) /\ req[r].loaded.step = "confirm_all" /\ req[r].confirm = "yes") =>
      /\ req[r].outcome = "failed" => Stored(req[r].sid) = req[r].loaded
      /\ req[r].outcome = "created" => Stored(req[r].sid).step = "done"

\* a yes turn at confirm_all whose CreateEvent call failed
C1_Witness ==
  \E r \in Reqs :
    /\ TurnEnd(r) /\ req[r].loaded.step = "confirm_all" /\ req[r].confirm = "yes"
    /\ req[r].outcome = "failed"
    /\ Stored(req[r].sid).step = "confirm_all"

\* C2: under serialized turns the number of successful CreateEvent calls of a
\* session is 1 if its step is done and 0 otherwise, and no turn processed at step
\* done calls CreateEvent.
C2_ExactlyOnce ==
  /\ \A s \in Sids : created[s] = IF Stored(s).step = "done" THEN 1 ELSE 0
  /\ \A r \in Reqs : req[r].loaded.step = "done" =>
       (req[r].pc # "creating" /\ req[r].request_id = 0)

\* a yes turn processed at done has ended, and the session has its one event
C2_Witness ==
  \E r \in Reqs :
    /\ TurnEnd(r) /\ req[r].loaded.step = "done" /\ req[r].confirm = "yes"
    /\ created[req[r].sid] = 1

\* CreateEvent calls of the session that failed before the turn of request r
PriorFailures(r) ==
  attempts - created[req[r].sid] - (IF req[r].outcome = "failed" THEN 1 ELSE 0)

\* C5: after a failed commit, a later turn at confirm_all whose confirmation
\* resolves to yes calls CreateEvent again; after every failure, however many came
\* before, the step is still confirm_all, and the first success makes it done.
C5_RetryAfterFailure ==
  \A r \in Reqs :
    (TurnEnd(r) /\ req[r].loaded.step = "confirm_all" /\ req[r].confirm = "yes"
       /\ PriorFailures(r) >= 1) =>
      /\ req[r].request_id # 0
      /\ req[r].outcome \in {"created", "failed"}
      /\ req[r].outcome = "failed" => Stored(req[r].sid).step = "confirm_all"
      /\ req[r].outcome = "created" => Stored(req[r].sid).step = "done"

\* the third call of a session succeeded after two failures
C5_Witness ==
  \E r \in Reqs :
    /\ TurnEnd(r) /\ req[r].outcome = "created" /\ req[r].request_id >= 3
    /\ PriorFailures(r) >= 2
    /\ Stored(req[r].sid).step = "done"

\* the extractor did not offer a usable value: ok flag false, or value null or empty
NotOffered(ok, value) == ~ok \/ ~Truthy(value)

\* the turn of request r takes an explicit reject edge
RejectEdge(r) ==
  req[r].loaded.step \in {"confirm_contact", "confirm_all"} /\ req[r].confirm = "no"

\* C8: in a turn whose extraction result has email_ok false or a null or empty
\* email, the stored email after the turn is the one before it; likewise phone
\* with phone_ok and start_iso with start_ok; turns that take a reject edge excepted.
C8_FieldNonClobbering ==
  \A r \in Reqs :
    (AfterDecide(r) /\ ~RejectEdge(r)) =>
      /\ NotOffered(req[r].ex.email_ok, req[r].ex.email) =>
           Stored(req[r].sid).email = req[r].loaded.email
      /\ NotOffered(req[r].ex.phone_ok, req[r].ex.phone) =>
           Stored(req[r].sid).phone = req[r].loaded.phone
      /\ NotOffered(req[r].ex.start_ok, req[r].ex.start_iso) =>
           Stored(req[r].sid).start_iso = req[r].loaded.start_iso

\* at ask_email_phone with an email already held, the extractor returned an email
\* with email_ok false, and the turn has ended
C8_Witness ==
  \E r \in Reqs :
    /\ TurnEnd(r) /\ req[r].loaded.step = "ask_email_phone"
    /\ Truthy(req[r].loaded.email)
    /\ Truthy(req[r].ex.email) /\ ~req[r].ex.email_ok
    /\ Stored(req[r].sid).email = req[r].loaded.email

\* C3: for every interleaving of two chat requests of one session there is at most
\* one successful CreateEvent call, and no request saves over a state that was
\* stored after that request loaded its own.
C3_NoConcurrentMutation ==
  [][ /\ \A s \in Sids : created'[s] <= 1
      /\ \A r \in Reqs :
           /\ (req[r].pc = "decide" /\ req'[r].pc = "stream") =>
                Stored(req[r].sid) = req[r].loaded
           /\ (req[r].pc = "creating" /\ req'[r].outcome = "created") =>
                Stored(req[r].sid) = req[r].st2 ]_vars

\* C4: a CreateEvent call that retries a failed call, no reject in between, carries
\* the request id of the failed call; any other call carries an id no call had.
C4_RetryReusesToken ==
  [][ \A r \in Reqs :
        (req[r].pc = "stream" /\ req'[r].pc = "creating") =>
          IF last_failed[req[r].sid] # 0
            THEN req'[r].request_id = last_failed[req[r].sid]
            ELSE req'[r].request_id \notin 1..attempts ]_vars

\* C6: at confirm_contact the utterance "no thanks" moves the session to
\* ask_email_phone with email and phone cleared, whatever the extractor inferred.
C6_NoThanksRejects ==
  \A r \in Reqs :
    (AfterDecide(r) /\ req[r].loaded.step = "confirm_contact"
       /\ req[r].user_text = U_no_thanks) =>
      /\ Stored(req[r].sid).step = "ask_email_phone"
      /\ Stored(req[r].sid).email = None
      /\ Stored(req[r].sid).phone = None

\* C7: at confirm_contact and confirm_all each affirmative token as the whole
\* utterance resolves the confirmation to yes and each negative token to no,
\* whatever the extractor inferred.
C7_ExplicitTokensWin ==
  \A r \in Reqs :
    (AfterDecide(r) /\ req[r].loaded.step \in {"confirm_contact", "confirm_all"}) =>
      /\ req[r].user_text \in SpecAffirmative => req[r].confirm = "yes"
      /\ req[r].user_text \in SpecNegative => req[r].confirm = "no"

\* C9: a stored email, phone or start_iso that is not null satisfies the
\* predicate of its field.
C9_ValidatedWrites ==
  \A s \in Sids :
    /\ Stored(s).email # None => is_valid_email(Stored(s).email)
    /\ Stored(s).phone # None => is_valid_phone(Stored(s).phone)
    /\ Stored(s).start_iso # None => _parse_iso_datetime(Stored(s).start_iso)

\* C10: at ask_time an extracted timestamp with neither an offset nor a trailing Z
\* leaves step at ask_time and start_iso as it was.
C10_AmbiguousTimeRejected ==
  \A r \in Reqs :
    (AfterDecide(r) /\ req[r].loaded.step = "ask_time"
       /\ Truthy(req[r].ex.start_iso) /\ ~HasTimezone(req[r].ex.start_iso)) =>
      /\ Stored(req[r].sid).step = "ask_time"
      /\ Stored(req[r].sid).start_iso = req[r].loaded.start_iso

\* C11: at ask_title the utterance "skip" sets the title to the default title and
\* moves the step to confirm_all, whatever the extractor returned, an extracted
\* title that is not null included.
C11_SkipForcesDefault ==
  \A r \in Reqs :
    (AfterDecide(r) /\ req[r].loaded.step = "ask_title" /\ req[r].user_text = U_skip) =>
      /\ req[r].st.title = DEFAULT_TITLE
      /\ req[r].st.step = "confirm_all"

\* C12: once the stored step is done no step changes the stored step, email,
\* phone, start_iso or title, no step starts a CreateEvent call for the session,
\* and the step machine of every turn plans the fixed already-created reply.
C12_TerminalStability ==
  [][\A s \in Sids :
       Stored(s).step = "done" =>
         /\ Stored(s)' = Stored(s)
         /\ created'[s] = created[s]
         /\ \A r \in Reqs :
              req[r].sid = s =>
                /\ req'[r].pc # "creating"
                /\ req[r].pc = "decide" => req'[r].planned = "already_created"]_vars

\* a turn at done that confirmed with yes, after the one event was created
C12_Witness ==
  \E r \in Reqs :
    /\ TurnEnd(r) /\ req[r].loaded.step = "done" /\ req[r].confirm = "yes"
    /\ req[r].planned = "already_created" /\ created[req[r].sid] = 1

\* C14: the extraction step of a turn never raises: it ends with a result and the
\* turn goes on to the step machine.
C14_ExtractionNeverRaises ==
  [][\A r \in Reqs : req[r].pc = "extract" => req'[r].pc \in {"extract", "decide"}]_vars

\* C16: every chat turn writes the booking state to the store exactly once, and
\* not before the outcome of a CreateEvent call of the turn is known.
C16_SingleSave ==
  \A r \in Reqs :
    /\ TurnEnd(r) => req[r].saves = 1
    /\ req[r].pc = "creating" => req[r].saves = 0

\* C13: a turn of a session without stored credentials replies with the
\* not-connected message only, runs neither the extractor nor CreateEvent, and
\* leaves the conversation state as it was when the turn began: the booking state
\* in chat, the message history in voice.
C13_GateLeavesState ==
  /\ \A r \in Reqs :
       req[r].pc = "not_connected" =>
         /\ req[r].out = <<"not_connected_text">>
         /\ req[r].ex = SafeFallback /\ req[r].request_id = 0
         /\ Stored(req[r].sid) = req[r].loaded
  /\ \A v \in VReqs :
       vreq[v].pc = "not_connected" =>
         /\ vreq[v].out = <<"not_connected_text">>
         /\ vreq[v].assistant_text = <<>> /\ vreq[v].request_id = 0
         /\ sessions[vreq[v].sid].voice_history = vreq[v].hist0

OutcomeTexts == {"created_text", "failed_text"}

\* in what a turn emitted: no reply fragment after the start of the call, and the
\* done event only after the outcome text of a call that started
Ordered(out) ==
  \A i \in DOMAIN out :
    /\ out[i] = "call" => \A j \in DOMAIN out : out[j] = "delta" => j < i
    /\ out[i] = "done" =>
         \A k \in DOMAIN out :
           out[k] = "call" => \E j \in DOMAIN out : k < j /\ j < i /\ out[j] \in OutcomeTexts

\* C15: in a chat or voice turn that calls CreateEvent, the call starts after
\* every reply fragment was forwarded and the done event follows the text that
\* reports the outcome of the call.
C15_CommitOrdering ==
  /\ \A r \in Reqs : Ordered(req[r].out)
  /\ \A v \in VReqs : Ordered(vreq[v].out)

\* a chat turn and a voice turn that each forwarded fragments, called and ended
C15_Witness ==
  /\ \E r \in Reqs :
       req[r].out \in {<<"delta", "delta", "call", "created_text", "done">>,
                       <<"delta", "delta", "call", "failed_text", "done">>}
  /\ \E v \in VReqs :
       vreq[v].out = <<"delta", "delta", "fixed_text", "call", "created_text",
                       "final_text", "done">>

\* C19: the voice history of a session holds at most 20 entries, and they are
\* the most recently appended ones in the order they were appended.
C19_BoundedHistory ==
  \A s \in Sids :
    LET h == sessions[s].voice_history
    IN /\ Len(h) <= 20
       /\ \A i \in DOMAIN h : h[i].n = sessions[s].spoken - Len(h) + i

\* the end of a voice turn with a full history whose oldest entries were dropped
C19_Witness ==
  \E v \in VReqs :
    /\ vreq[v].pc = "finish"
    /\ Len(sessions[vreq[v].sid].voice_history) = 20
    /\ sessions[vreq[v].sid].voice_history[1].n > 1
    /\ sessions[vreq[v].sid].voice_history[20].role = "assistant"

\* C17: the state handle_user_message returns together with the action
\* create_meeting does not have step done.
C17_NotDoneBeforeCommit ==
  agent.action = "create_meeting" => agent.state.step # "done"

JohnNormalized == <<"j","o","h","n",".","d","o","e","@","e","x","a","m","p","l","e",".","c","o","m">>

\* a stored phone: digits after at most one leading +, seven digits or more
DigitsOnly(p) ==
  LET body == IF p # <<>> /\ Head(p) = "+" THEN Tail(p) ELSE p
  IN Len(body) >= 7 /\ \A i \in DOMAIN body : body[i] \in Digits

\* a stored email: no surrounding whitespace and no upper-case letter
TrimmedLower(e) == Strip(e) = e /\ Lower(e) = e

\* C18: an email stored by chat_stream or by handle_user_message is trimmed and
\* lower-cased (" John.Doe@Example.COM " as john.doe@example.com), and a stored
\* phone is digits after at most one leading + with seven digits or more
\* ("+1 (415) 555-2671" as +14155552671).
C18_Normalization ==
  /\ \A s \in Sids :
       /\ Stored(s).email # None => TrimmedLower(Stored(s).email)
       /\ Stored(s).phone # None => DigitsOnly(Stored(s).phone)
  /\ agent.state.email # None => TrimmedLower(agent.state.email)
  /\ agent.state.phone # None => DigitsOnly(agent.state.phone)
  /\ \A r \in Reqs :
       (AfterDecide(r) /\ req[r].loaded.step = "ask_email_phone"
          /\ req[r].ex.email = EmailJohn /\ req[r].ex.email_ok
          /\ req[r].ex.phone = PhoneSpaced /\ req[r].ex.phone_ok) =>
         /\ req[r].st.email = JohnNormalized
         /\ req[r].st.phone = PhoneGood
  /\ (agent.prev.step = "ask_email" /\ agent.user_text = EmailJohn) =>
       agent.state.email = JohnNormalized
  /\ (agent.prev.step = "ask_phone" /\ agent.user_text = PhoneSpaced) =>
       agent.state.phone = PhoneGood

\* C20: a step of a chat or voice turn changes no entry of the store but that of
\* the turn's session, an OAuth step changes one entry at most, and a chat turn of
\* an identifier without booking state loads and stores step ask_email_phone with
\* email, phone, start_iso and title null.
C20_SessionIsolation ==
  [][/\ Cardinality({b \in Sids : sessions'[b] # sessions[b]}) <= 1
     /\ \A b \in Sids :
          sessions'[b] # sessions[b] =>
            /\ \A r \in Reqs : req'[r] # req[r] => req'[r].pc # "idle" /\ req'[r].sid = b
            /\ \A v \in VReqs : vreq'[v] # vreq[v] => vreq'[v].pc # "idle" /\ vreq'[v].sid = b
     /\ \A r \in Reqs :
          (req[r].pc = "idle" /\ req'[r].pc # "idle" /\ ~sessions[req'[r].sid].has_state) =>
            /\ req'[r].loaded = BookingState("ask_email_phone", None, None, None, None)
            /\ sessions'[req'[r].sid].has_state
            /\ sessions'[req'[r].sid].booking_state = req'[r].loaded]_vars

\* a chat turn of s2 that found no state and got the default one, while s1 holds
\* contact details, credentials and a voice history
C20_Witness ==
  \E r \in Reqs :
    /\ req[r].pc = "extract" /\ req[r].sid = "s2"
    /\ req[r].loaded = DefaultState /\ Stored("s2") = DefaultState
    /\ Stored("s1").step = "confirm_contact" /\ Stored("s1").email # None
    /\ sessions["s1"].google_tokens /\ sessions["s1"].voice_history # <<>>

\* the edges of the step graph
StepEdges ==
  { <<"ask_email_phone", "confirm_contact">>, <<"confirm_contact", "ask_time">>,
    <<"confirm_contact", "ask_email_phone">>, <<"ask_time", "ask_title">>,
    <<"ask_title", "confirm_all">>, <<"confirm_all", "ask_time">>,
    <<"confirm_all", "done">> }

\* C21: every step that changes the stored step of a session takes one edge of
\* the step graph, and the stored step a turn leaves differs from the one it
\* loaded by one edge at most.
C21_TransitionGraph ==
  [][/\ \A s \in Sids :
          Stored(s)'.step # Stored(s).step => <<Stored(s).step, Stored(s)'.step>> \in StepEdges
     /\ \A r \in Reqs :
          req'[r].pc \in {"stream", "creating", "finish"} =>
            \/ sessions'[req'[r].sid].booking_state.step = req'[r].loaded.step
            \/ <<req'[r].loaded.step, sessions'[req'[r].sid].booking_state.step>>
                 \in StepEdges]_vars

\* C22: a turn at confirm_all whose confirmation resolves to no stores start_iso
\* null and step ask_time, keeps email, phone and title, and calls no CreateEvent.
C22_RejectAtConfirmAll ==
  \A r \in Reqs :
    (AfterDecide(r) /\ req[r].loaded.step = "confirm_all" /\ req[r].confirm = "no") =>
      /\ Stored(req[r].sid) = [req[r].loaded EXCEPT !.step = "ask_time", !.start_iso = None]
      /\ req[r].pc # "creating" /\ req[r].request_id = 0

\* the end of a turn that rejected a full booking
C22_Witness ==
  \E r \in Reqs :
    /\ TurnEnd(r) /\ req[r].loaded.step = "confirm_all" /\ req[r].confirm = "no"
    /\ Truthy(req[r].loaded.start_iso) /\ Truthy(req[r].loaded.title)
    /\ Stored(req[r].sid).title = req[r].loaded.title

\* C23: at confirm_contact and confirm_all a turn whose utterance is no yes/no
\* token and whose extracted confirm is null keeps the step and every field,
\* plans the yes/no reprompt, and calls no CreateEvent.
C23_AmbiguousConfirmation ==
  \A r \in Reqs :
    (AfterDecide(r) /\ req[r].loaded.step \in {"confirm_contact", "confirm_all"}
       /\ Lower(req[r].user_text) \notin SpecAffirmative \cup SpecNegative
       /\ req[r].ex.confirm = NoConfirm) =>
      /\ Stored(req[r].sid) = req[r].loaded
      /\ req[r].planned = IF req[r].loaded.step = "confirm_contact"
                            THEN "reprompt_contact" ELSE "reprompt_create"
      /\ req[r].pc # "creating" /\ req[r].request_id = 0

\* the end of an ambiguous turn at confirm_all
C23_Witness ==
  \E r \in Reqs :
    /\ TurnEnd(r) /\ req[r].loaded.step = "confirm_all"
    /\ req[r].user_text = U_hello /\ req[r].ex.confirm = NoConfirm
    /\ req[r].planned = "reprompt_create"

\* C24: under serialized turns a stored step confirm_contact comes with an email
\* and a phone that are not empty; ask_title with these and a start_iso that
\* parses; confirm_all and done with email, phone, start_iso and title not empty;
\* and no turn ends in the internal-error branch of the commit.
C24_EntryConditions ==
  /\ \A s \in Sids :
       LET st == Stored(s)
           contact == Truthy(st.email) /\ Truthy(st.phone)
       IN /\ st.step = "confirm_contact" => contact
          /\ st.step = "ask_title" =>
               contact /\ st.start_iso # None /\ _parse_iso_datetime(st.start_iso)
          /\ st.step \in {"confirm_all", "done"} =>
               contact /\ Truthy(st.start_iso) /\ Truthy(st.title)
  /\ \A r \in Reqs : req[r].outcome # "internal_error"

\* a commit under way: the guard passed and the stored start_iso parsed
C24_Witness ==
  \E r \in Reqs :
    /\ req[r].pc = "creating" /\ Stored(req[r].sid).step = "confirm_all"
    /\ Stored(req[r].sid).start_iso = StartNaive
    /\ Stored(req[r].sid).title = DEFAULT_TITLE

\* C25: a turn at ask_email_phone advances to confirm_contact exactly when the
\* email and the phone it stores are both not empty; a stored email stays when the
\* turn extracts none, so a later turn that extracts a valid phone alone advances.
C25_ContactAccumulation ==
  \A r \in Reqs :
    (AfterDecide(r) /\ req[r].loaded.step = "ask_email_phone") =>
      LET st == Stored(req[r].sid)
      IN /\ st.step = "confirm_contact" <=> (Truthy(st.email) /\ Truthy(st.phone))
         /\ st.step \in {"ask_email_phone", "confirm_contact"}
         /\ req[r].ex.email = None => st.email = req[r].loaded.email
         /\ (Truthy(req[r].loaded.email) /\ req[r].ex.email = None
               /\ req[r].ex.phone_ok /\ is_valid_phone(req[r].ex.phone)) =>
              st.step = "confirm_contact"

\* a turn that extracted the phone alone and advanced on the email of an earlier turn
C25_Witness ==
  \E r \in Reqs :
    /\ TurnEnd(r) /\ req[r].loaded.step = "ask_email_phone"
    /\ Truthy(req[r].loaded.email) /\ req[r].loaded.phone = None
    /\ req[r].ex.email = None /\ req[r].ex.phone = PhoneGood /\ req[r].ex.phone_ok
    /\ Stored(req[r].sid).step = "confirm_contact"

AgentEdges ==
  { <<"ask_email", "ask_phone">>, <<"ask_phone", "confirm">>, <<"confirm", "done">>,
    <<"confirm", "ask_email">> }

\* the utterance of the last call, trimmed and lower-cased
AgentSaid == Lower(Strip(agent.user_text))

\* C28: a call of handle_user_message changes the step along ask_email ->
\* ask_phone -> confirm -> done or confirm -> ask_email only; an invalid email at
\* ask_email, an invalid phone at ask_phone and an answer at confirm that is no
\* yes/no word return the state as it was with no action; a no at confirm returns
\* step ask_email with email and phone null and the title kept; and the action
\* create_meeting comes exactly with the step from confirm to done.
C28_StandaloneEngine ==
  /\ agent.state.step # agent.prev.step =>
       <<agent.prev.step, agent.state.step>> \in AgentEdges
  /\ (agent.prev.step = "ask_email" /\ agent.user_text \in {EmailBad, U_hello, Blank}) =>
       agent.state = agent.prev /\ agent.action = "none"
  /\ (agent.prev.step = "ask_phone"
        /\ agent.user_text \in {PhoneBad, PhoneTwoPlus, U_hello, Blank}) =>
       agent.state = agent.prev /\ agent.action = "none"
  /\ (agent.prev.step = "confirm" /\ AgentSaid \notin AgentYes \cup AgentNo) =>
       agent.state = agent.prev /\ agent.action = "none"
  /\ (agent.prev.step = "confirm" /\ AgentSaid \in AgentNo) =>
       /\ agent.state = AgentBookingState("ask_email", None, None, agent.prev.title)
       /\ agent.action = "none"
  /\ agent.action = "create_meeting" <=>
       (agent.prev.step = "confirm" /\ agent.state.step = "done")

\* the call that answered the confirmation with a yes word
C28_Witness ==
  /\ agent.prev.step = "confirm" /\ agent.user_text = U_correct
  /\ agent.state.step = "done" /\ agent.action = "create_meeting"
  /\ agent.state.email = JohnNormalized /\ agent.state.phone = PhoneGood

\* C29: the google_tokens of a session are written only by a step that finds the
\* presented state value stored as that session's oauth_csrf, and that step
\* changes nothing else; a session with no stored value or another one never gets
\* tokens; and a chat or voice turn passes the credential gate only for a session
\* that has them.
C29_OAuthStateCheck ==
  [][/\ \A s \in Sids :
          sessions'[s].google_tokens # sessions[s].google_tokens =>
            /\ sessions[s].oauth_csrf = Presented /\ Issued[s] = Presented
            /\ sessions' = [sessions EXCEPT ![s].google_tokens = TRUE]
            /\ req' = req /\ vreq' = vreq
     /\ \A r \in Reqs :
          (req[r].pc = "idle" /\ req'[r].pc = "extract") =>
            sessions[req'[r].sid].google_tokens /\ Issued[req'[r].sid] = Presented
     /\ \A v \in VReqs :
          (vreq[v].pc = "idle" /\ vreq'[v].pc = "stream") =>
            sessions[vreq'[v].sid].google_tokens /\ Issued[vreq'[v].sid] = Presented]_vars

\* s2 is connected and past the gate while s1, that was issued another value, is
\* turned away
C29_Witness ==
  /\ sessions["s1"].oauth_csrf = "c1" /\ ~sessions["s1"].google_tokens
  /\ sessions["s2"].oauth_csrf = "c2" /\ sessions["s2"].google_tokens
  /\ req["r1"].pc = "not_connected" /\ req["r1"].sid = "s1"
  /\ vreq["v1"].pc = "stream" /\ vreq["v1"].sid = "s2"

\* the voice turn of request v is over but for the final_text and done events
VoiceTurnEnd(v) == vreq[v].pc = "finish"

\* the turn of request v called CreateEvent
VoiceCalled(v) == vreq[v].request_id # 0

\* the history the turn of request v began with, then its user and assistant
\* entries, within the window
HistoryKept(v) ==
  LET s == vreq[v].sid
      n == sessions[s].spoken
      h == vreq[v].hist0 \o <<[role |-> "user", n |-> n - 1],
                               [role |-> "assistant", n |-> n]>>
  IN sessions[s].voice_history =
       IF Len(h) <= 20 THEN h ELSE SubSeq(h, Len(h) - 19, Len(h))

\* after a successful call the history is empty; after a failure it is kept and
\* the failure text is the last event before final_text and done
VoiceOutcomes(v) ==
  /\ vreq[v].outcome = "created" =>
       VoiceCalled(v) /\ sessions[vreq[v].sid].voice_history = <<>>
  /\ vreq[v].outcome = "failed" =>
       /\ HistoryKept(v)
       /\ vreq[v].out[Len(vreq[v].out)] = "failed_text"
  /\ vreq[v].outcome = "none" => HistoryKept(v) /\ ~VoiceCalled(v)

\* C27 as stated: a voice turn calls CreateEvent if and only if its assistant
\* text contains CONFIRMED; the history is empty after a successful call and kept
\* after a failed finalize or call, the failure text emitted before done.
C27_CommitIffConfirmed ==
  \A v \in VReqs :
    VoiceTurnEnd(v) =>
      /\ VoiceCalled(v) <=> Contains(vreq[v].assistant_text, CONFIRMED)
      /\ VoiceOutcomes(v)

\* C27, amended: a voice turn calls CreateEvent only if its assistant text
\* contains CONFIRMED, and a turn whose text contains it either calls CreateEvent
\* or fails in finalize before the call; the history is empty after a successful
\* call and kept after a failed finalize or call, the failure text emitted before
\* done.
C27_VoiceCommitAndReset ==
  \A v \in VReqs :
    VoiceTurnEnd(v) =>
      /\ VoiceCalled(v) => Contains(vreq[v].assistant_text, CONFIRMED)
      /\ Contains(vreq[v].assistant_text, CONFIRMED) =>
           VoiceCalled(v) \/ vreq[v].outcome = "failed"
      /\ ~Contains(vreq[v].assistant_text, CONFIRMED) => vreq[v].outcome = "none"
      /\ VoiceOutcomes(v)

\* a turn whose call failed with a history behind it, and the text before the token
C27_Witness ==
  \E v \in VReqs :
    /\ VoiceTurnEnd(v) /\ VoiceCalled(v) /\ vreq[v].outcome = "failed"
    /\ vreq[v].assistant_text = C_ok \o CONFIRMED
    /\ Len(vreq[v].hist0) >= 2
    /\ Len(sessions[vreq[v].sid].voice_history) = Len(vreq[v].hist0) + 2

====
